---- MODULE Spec2Model ----
(***************************************************************************)
(* The branching chess move tree of Aram47/test-chess-game:                *)
(*   - the session component ChessBranchingExample of                      *)
(*     "docs/code examples/chess_move_tree.tsx" (node map, cursor, genId),  *)
(*   - the codec and validator serializeTree / deserializeTree /           *)
(*     validateTree of the tree serialization utilities.                   *)
(* JavaScript values are modelled as tagged records so that a string, a    *)
(* number, null, undefined and an array stay distinguishable.              *)
(***************************************************************************)
EXTENDS Integers, Sequences, FiniteSets, TLC

----------------------------------------------------------------------------
(* JavaScript values *)

Str(s) == [k |-> "string", s |-> s, n |-> 0, a |-> <<>>]
Num(n) == [k |-> "number", s |-> "", n |-> n, a |-> <<>>]
Arr(items) == [k |-> "array", s |-> "", n |-> 0, a |-> items]
Null == [k |-> "null", s |-> "", n |-> 0, a |-> <<>>]
Undefined == [k |-> "undefined", s |-> "", n |-> 0, a |-> <<>>]

\* JavaScript truthiness, as used by `!x` and `if (x)`.
Truthy(v) ==
    CASE v.k = "string" -> v.s # ""
      [] v.k = "number" -> v.n # 0
      [] v.k = "array" -> TRUE
      [] OTHER -> FALSE

\* A MoveNode object literal; a property that is absent reads as undefined.
MoveNode(id, parentId, children, move, uci, fen, ply) ==
    [k |-> "object", id |-> id, parentId |-> parentId, children |-> children,
     move |-> move, uci |-> uci, fen |-> fen, ply |-> ply]

----------------------------------------------------------------------------
(* Bounds *)

\* genId hands out ids while its counter is at most MaxGenId.
MaxGenId == 3

----------------------------------------------------------------------------
(* chess_move_tree.tsx: genId, makeInitialTree *)

\* `${prefix}${n}` for the counters the model reaches.
NIds == <<"n1", "n2", "n3", "n4", "n5", "n6", "n7", "n8", "n9", "n10", "n11", "n12">>
RIds == <<"r1", "r2", "r3", "r4", "r5", "r6", "r7", "r8", "r9", "r10", "r11", "r12">>

genId(prefix, n) == IF prefix = "r" THEN RIds[n] ELSE NIds[n]

\* The tree makeInitialTree returns (the literal of lines 56-270).
makeInitialTree ==
  [rootId |-> "r1",
   nodes |->
    "r1" :> MoveNode(Str("r1"), Null, Arr(<<Str("n1"), Str("v1")>>),
            Undefined, Undefined,
            Str("rnbqkbnr/pppppppp/8/8/8/8/PPPPPPPP/RNBQKBNR w KQkq - 0 1"), Num(0)) @@
    "n1" :> MoveNode(Str("n1"), Str("r1"), Arr(<<Str("n2"), Str("v2")>>),
            Str("e4"), Str("e2e4"),
            Str("rnbqkbnr/pppppppp/8/8/4P3/8/PPPP1PPP/RNBQKBNR b KQkq e3 0 1"), Num(1)) @@
    "n2" :> MoveNode(Str("n2"), Str("n1"), Arr(<<Str("n3")>>),
            Str("e5"), Str("e7e5"),
            Str("rnbqkbnr/pppp1ppp/8/4p3/4P3/8/PPPP1PPP/RNBQKBNR w KQkq e6 0 2"), Num(2)) @@
    "n3" :> MoveNode(Str("n3"), Str("n2"), Arr(<<Str("n4")>>),
            Str("Nf3"), Str("g1f3"),
            Str("rnbqkbnr/pppp1ppp/8/4p3/4P3/5N2/PPPP1PPP/RNBQKB1R b KQkq - 1 2"), Num(3)) @@
    "n4" :> MoveNode(Str("n4"), Str("n3"), Arr(<<Str("n5"), Str("v3")>>),
            Str("Nc6"), Str("b8c6"),
            Str("r1bqkbnr/pppp1ppp/2n5/4p3/4P3/5N2/PPPP1PPP/RNBQKB1R w KQkq - 2 3"), Num(4)) @@
    "n5" :> MoveNode(Str("n5"), Str("n4"), Arr(<<Str("n6")>>),
            Str("Bb5"), Str("f1b5"),
            Str("r1bqkbnr/pppp1ppp/2n5/1B2p3/4P3/5N2/PPPP1PPP/RNBQK2R b KQkq - 3 3"), Num(5)) @@
    "n6" :> MoveNode(Str("n6"), Str("n5"), Arr(<<Str("n7")>>),
            Str("a6"), Str("a7a6"),
            Str("r1bqkbnr/1ppp1ppp/2n5/1B2p3/4P3/5N2/PPPP1PPP/RNBQK2R w KQkq - 0 4"), Num(6)) @@
    "n7" :> MoveNode(Str("n7"), Str("n6"), Arr(<<Str("n8")>>),
            Str("Ba4"), Str("b5a4"),
            Str("r1bqkbnr/1ppp1ppp/2n5/4p3/B3P3/5N2/PPPP1PPP/RNBQK2R b KQkq - 1 4"), Num(7)) @@
    "n8" :> MoveNode(Str("n8"), Str("n7"), Arr(<<Str("n9")>>),
            Str("Nf6"), Str("g8f6"),
            Str("r1bqkb1r/1ppp1ppp/2n2n2/4p3/B3P3/5N2/PPPP1PPP/RNBQK2R w KQkq - 2 5"), Num(8)) @@
    "n9" :> MoveNode(Str("n9"), Str("n8"), Arr(<<>>),
            Str("O-O"), Str("e1g1"),
            Str("r1bqkb1r/1ppp1ppp/2n2n2/4p3/B3P3/5N2/PPPP1PPP/RNBQ1RK1 b kq - 3 5"), Num(9)) @@
    "v1" :> MoveNode(Str("v1"), Str("r1"), Arr(<<Str("v1a"), Str("v1b")>>),
            Str("c5"), Str("c7c5"),
            Str("rnbqkbnr/pp1ppppp/8/2p5/4P3/8/PPPP1PPP/RNBQKBNR w KQkq c6 0 2"), Num(1)) @@
    "v1a" :> MoveNode(Str("v1a"), Str("v1"), Arr(<<Str("v1a1")>>),
            Str("Nf3"), Str("g1f3"),
            Str("rnbqkbnr/pp1ppppp/8/2p5/4P3/5N2/PPPP1PPP/RNBQKB1R b KQkq - 1 2"), Num(2)) @@
    "v1a1" :> MoveNode(Str("v1a1"), Str("v1a"), Arr(<<>>),
            Str("d6"), Str("d7d6"),
            Str("rnbqkbnr/pp2pppp/3p4/2p5/4P3/5N2/PPPP1PPP/RNBQKB1R w KQkq - 0 3"), Num(3)) @@
    "v1b" :> MoveNode(Str("v1b"), Str("v1"), Arr(<<>>),
            Str("d4"), Str("d2d4"),
            Str("rnbqkbnr/pp1ppppp/8/2p5/3PP3/8/PPP2PPP/RNBQKBNR b KQkq d3 0 2"), Num(2)) @@
    "v2" :> MoveNode(Str("v2"), Str("n1"), Arr(<<Str("v2a")>>),
            Str("d4"), Str("d2d4"),
            Str("rnbqkbnr/pppp1ppp/8/4p3/3PP3/8/PPP2PPP/RNBQKBNR b KQkq d3 0 2"), Num(2)) @@
    "v2a" :> MoveNode(Str("v2a"), Str("v2"), Arr(<<Str("v2a1")>>),
            Str("exd4"), Str("e5d4"),
            Str("rnbqkbnr/pppp1ppp/8/8/3pP3/8/PPP2PPP/RNBQKBNR w KQkq - 0 3"), Num(3)) @@
    "v2a1" :> MoveNode(Str("v2a1"), Str("v2a"), Arr(<<>>),
            Str("Nc3"), Str("b1c3"),
            Str("rnbqkbnr/pppp1ppp/8/8/3pP3/2N5/PPP2PPP/R1BQKBNR b KQkq - 1 3"), Num(4)) @@
    "v3" :> MoveNode(Str("v3"), Str("n4"), Arr(<<Str("v3a")>>),
            Str("Nf6"), Str("g8f6"),
            Str("r1bqkb1r/pppp1ppp/2n2n2/4p3/4P3/5N2/PPPP1PPP/RNBQKB1R w KQkq - 2 3"), Num(4)) @@
    "v3a" :> MoveNode(Str("v3a"), Str("v3"), Arr(<<>>),
            Str("d4"), Str("d2d4"),
            Str("r1bqkb1r/pppp1ppp/2n2n2/4p3/3PP3/5N2/PPP2PPP/RNBQKB1R b KQkq d3 0 4"), Num(5))
  ]

----------------------------------------------------------------------------
(* The rules engine (chess.js), consumed through c.load / c.move / c.fen *)

\* The move requests the session is driven with: a plain move and a
\* promotion request (onSquareClick passes "q" from the 7th to the 8th rank).
MoveRequests ==
    { [from |-> "g1", to |-> "f3", promotion |-> Undefined],
      [from |-> "a7", to |-> "a8", promotion |-> Str("q")] }

\* c.move(mv) on the position loaded from fen: null for an illegal move,
\* otherwise the move made (its SAN) and the position c.fen() reports.
\* The engine is deterministic: the same request on the same position gives
\* the same answer.
chessMove(fen, mv) ==
    IF mv.from = "g1" /\ mv.to = "f3" /\ ~Truthy(mv.promotion)
    THEN [legal |-> TRUE, san |-> "Nf3", fen |-> "position after Nf3"]
    ELSE [legal |-> FALSE, san |-> "", fen |-> ""]

\* `${from}${to}${promotion ? promotion : ""}` for the requests above.
uciOf(from, to, promotion) ==
    CASE from = "g1" /\ to = "f3" /\ ~Truthy(promotion) -> "g1f3"
      [] from = "a7" /\ to = "a8" /\ promotion = Str("q") -> "a7a8q"
      [] OTHER -> "????"

\* `Illegal move: ${from}-${to}` and `Played ${res.san}`.
illegalMsg(from, to) ==
    CASE from = "a7" /\ to = "a8" -> "Illegal move: a7-a8"
      [] from = "g1" /\ to = "f3" -> "Illegal move: g1-f3"
      [] OTHER -> "Illegal move: ?"

playedMsg(san) == IF san = "Nf3" THEN "Played Nf3" ELSE "Played ?"

----------------------------------------------------------------------------
(* JavaScript and JSON, as the tree serialization utilities use them *)

\* Number.NaN: typeof is 'number', JSON.stringify writes it as null.
NaN == [k |-> "number", s |-> "NaN", n |-> 0, a |-> <<>>]

\* A member that a JSON object does not have (JSON has no undefined).
JsonAbsent == [k |-> "absent", s |-> "", n |-> 0, a |-> <<>>]

\* Decimal text of the numbers the model reaches.
DecimalText == <<"0", "1", "2", "3", "4", "5", "6", "7", "8", "9", "10", "11", "12">>

\* String(v)
JsString(v) ==
    CASE v.k = "string" -> v
      [] v.k = "number" ->
           IF v.s = "NaN" THEN Str("NaN")
           ELSE IF v.n \in 0..12 THEN Str(DecimalText[v.n + 1]) ELSE Str("#number")
      [] v.k = "null" -> Str("null")
      [] v.k = "undefined" -> Str("undefined")
      [] v.k = "array" ->
           IF v.a = <<>> THEN Str("")
           ELSE IF Len(v.a) = 1 /\ v.a[1].k = "string" THEN v.a[1] ELSE Str("#array")
      [] OTHER -> Str("#value")

\* a === b on primitives.
StrictEq(a, b) == a = b /\ a # NaN

\* A tree object { nodes, rootId }. k is what the tree value itself is, nodesK
\* what its nodes property is ("object", or "undefined" when it is missing).
Tree(ns, root) == [k |-> "object", nodesK |-> "object", nodes |-> ns, rootId |-> root]

NoNodes == [x \in {} |-> Null]

\* obj[key] is an own member holding an object: what `!obj[key]` tests.
HasNode(ns, key) == JsString(key).s \in DOMAIN ns /\ ns[JsString(key).s].k = "object"

\* Object.entries order. An integer key comes first, the other members are
\* kept in the order they were inserted; the model lists keys in this fixed
\* order.
KeyOrder ==
    <<"1", "r1", "n1", "n2", "n3", "n4", "n5", "n6", "n7", "n8", "n9", "n10", "n11",
      "n12", "v1", "v1a", "v1a1", "v1b", "v2", "v2a", "v2a1", "v3", "v3a">>

objectKeys(ns) == SelectSeq(KeyOrder, LAMBDA key : key \in DOMAIN ns)

\* JSON.stringify on a member value: undefined members are left out, NaN
\* becomes null, undefined and NaN array elements become null.
JsonOf(v) ==
    CASE v.k = "undefined" -> JsonAbsent
      [] v = NaN -> Null
      [] v.k = "array" ->
           Arr([i \in DOMAIN v.a |->
                  IF v.a[i].k = "undefined" \/ v.a[i] = NaN THEN Null ELSE v.a[i]])
      [] OTHER -> v

\* Reading a member of a JSON.parse result: a missing member reads undefined.
ParseJson(v) == IF v.k = "absent" THEN Undefined ELSE v

stringifyNode(node) ==
    [k |-> "object", id |-> JsonOf(node.id), parentId |-> JsonOf(node.parentId),
     children |-> JsonOf(node.children), move |-> JsonOf(node.move),
     uci |-> JsonOf(node.uci), fen |-> JsonOf(node.fen), ply |-> JsonOf(node.ply)]

parseNode(j) ==
    [k |-> j.k, id |-> ParseJson(j.id), parentId |-> ParseJson(j.parentId),
     children |-> ParseJson(j.children), move |-> ParseJson(j.move),
     uci |-> ParseJson(j.uci), fen |-> ParseJson(j.fen), ply |-> ParseJson(j.ply)]

\* A JSON text: "json" with the document it spells, "blank" for an empty or
\* whitespace-only string, "garbage" for text JSON.parse rejects.
JsonText(doc) == [kind |-> "json", doc |-> doc]

\* JSON.stringify(tree)
JSONstringify(t) ==
    JsonText([k |-> t.k, nodesK |-> t.nodesK,
              nodes |-> [key \in DOMAIN t.nodes |-> stringifyNode(t.nodes[key])],
              rootId |-> JsonOf(t.rootId)])

\* JSON.parse(text) for a text of kind "json".
JSONparse(text) ==
    [k |-> text.doc.k, nodesK |-> text.doc.nodesK,
     nodes |-> [key \in DOMAIN text.doc.nodes |-> parseNode(text.doc.nodes[key])],
     rootId |-> ParseJson(text.doc.rootId)]

----------------------------------------------------------------------------
(* serializeTree, deserializeTree, validateTree *)

NoTree == [k |-> "undefined", nodesK |-> "undefined", nodes |-> NoNodes, rootId |-> Undefined]
NoText == [kind |-> "none", doc |-> NoTree]

Threw(msg) == [ran |-> TRUE, ok |-> FALSE, error |-> msg, text |-> NoText, tree |-> NoTree]
ReturnedText(text) == [ran |-> TRUE, ok |-> TRUE, error |-> "", text |-> text, tree |-> NoTree]
ReturnedTree(t) == [ran |-> TRUE, ok |-> TRUE, error |-> "", text |-> NoText, tree |-> t]
NotRun == [ran |-> FALSE, ok |-> FALSE, error |-> "", text |-> NoText, tree |-> NoTree]

\* The node copied in serializeTree, with every child dropped.
cleanNodeDropsChildren(node) ==
    MoveNode(node.id, node.parentId, Arr(<<>>), node.move, node.uci, node.fen,
             IF node.ply.k = "number" THEN node.ply ELSE Num(0))

\* serializeTree: the clean copy of one node.
cleanNode(node) ==
    MoveNode(node.id, node.parentId,
             IF node.children.k = "array" THEN Arr(node.children.a) ELSE Arr(<<>>),
             node.move, node.uci, node.fen,
             IF node.ply.k = "number" THEN node.ply ELSE Num(0))

serializeTree(tree) ==
    IF tree.k # "object" THEN Threw("Tree must be an object")
    ELSE IF tree.nodesK # "object" THEN Threw("Tree must have a nodes property")
    ELSE IF ~Truthy(tree.rootId) THEN Threw("Tree must have a rootId string property")
    ELSE IF ~HasNode(tree.nodes, tree.rootId) THEN Threw("Root node does not exist in nodes")
    ELSE IF \E key \in DOMAIN tree.nodes : tree.nodes[key].k # "object"
    THEN Threw("TypeError: Cannot read properties of null")
    ELSE ReturnedText(JSONstringify(
             Tree([key \in DOMAIN tree.nodes |-> cleanNode(tree.nodes[key])], tree.rootId)))

\* The normalized copy with String(parentId) taken of a null parentId too.
normalizeNodeStringsNull(nodeObj) ==
    MoveNode(nodeObj.id,
             JsString(nodeObj.parentId),
             IF nodeObj.children.k = "array"
             THEN Arr([i \in DOMAIN nodeObj.children.a |-> JsString(nodeObj.children.a[i])])
             ELSE Arr(<<>>),
             IF nodeObj.move # Undefined THEN JsString(nodeObj.move) ELSE Undefined,
             IF nodeObj.uci # Undefined THEN JsString(nodeObj.uci) ELSE Undefined,
             JsString(nodeObj.fen),
             IF nodeObj.ply.k = "number" THEN nodeObj.ply ELSE Num(0))

\* deserializeTree: the normalized copy of one parsed node.
normalizeNode(nodeObj) ==
    MoveNode(nodeObj.id,
             IF nodeObj.parentId = Null THEN Null ELSE JsString(nodeObj.parentId),
             IF nodeObj.children.k = "array"
             THEN Arr([i \in DOMAIN nodeObj.children.a |-> JsString(nodeObj.children.a[i])])
             ELSE Arr(<<>>),
             IF nodeObj.move # Undefined THEN JsString(nodeObj.move) ELSE Undefined,
             IF nodeObj.uci # Undefined THEN JsString(nodeObj.uci) ELSE Undefined,
             JsString(nodeObj.fen),
             IF nodeObj.ply.k = "number" THEN nodeObj.ply ELSE Num(0))

\* deserializeTree with the rootId test ahead of the nodes test.
deserializeTreeRootIdFirst(jsonString) ==
    IF jsonString.kind = "blank" THEN Threw("JSON string cannot be empty")
    ELSE IF jsonString.kind # "json" THEN Threw("Invalid JSON string")
    ELSE
    LET parsed == JSONparse(jsonString) IN
    IF parsed.k # "object" THEN Threw("Parsed JSON must be an object")
    ELSE IF ~Truthy(parsed.rootId) THEN Threw("Tree must have a rootId string property")
    ELSE IF parsed.nodesK # "object" THEN Threw("Tree must have a nodes property")
    ELSE IF ~HasNode(parsed.nodes, parsed.rootId) THEN Threw("Root node does not exist in nodes")
    ELSE
    LET bad == SelectSeq(objectKeys(parsed.nodes), LAMBDA key :
                   \/ parsed.nodes[key].k # "object"
                   \/ ~StrictEq(parsed.nodes[key].id, Str(key)))
    IN
    IF bad # <<>>
    THEN IF parsed.nodes[Head(bad)].k # "object"
         THEN Threw("Node must be an object") ELSE Threw("Node ID mismatch")
    ELSE ReturnedTree(
             Tree([key \in DOMAIN parsed.nodes |-> normalizeNode(parsed.nodes[key])],
                  JsString(parsed.rootId)))

deserializeTree(jsonString) ==
    IF jsonString.kind = "blank" THEN Threw("JSON string cannot be empty")
    ELSE IF jsonString.kind # "json" THEN Threw("Invalid JSON string")
    ELSE
    LET parsed == JSONparse(jsonString) IN
    IF parsed.k # "object" THEN Threw("Parsed JSON must be an object")
    ELSE IF parsed.nodesK # "object" THEN Threw("Tree must have a nodes property")
    ELSE IF ~Truthy(parsed.rootId) THEN Threw("Tree must have a rootId string property")
    ELSE IF ~HasNode(parsed.nodes, parsed.rootId) THEN Threw("Root node does not exist in nodes")
    ELSE
    LET bad == SelectSeq(objectKeys(parsed.nodes), LAMBDA key :
                   \/ parsed.nodes[key].k # "object"
                   \/ ~StrictEq(parsed.nodes[key].id, Str(key)))
    IN
    IF bad # <<>>
    THEN IF parsed.nodes[Head(bad)].k # "object"
         THEN Threw("Node must be an object") ELSE Threw("Node ID mismatch")
    ELSE ReturnedTree(
             Tree([key \in DOMAIN parsed.nodes |-> normalizeNode(parsed.nodes[key])],
                  JsString(parsed.rootId)))

\* One entry of the errors list: the message and the values put into it.
Err(msg, a, b, c) == [msg |-> msg, a |-> a, b |-> b, c |-> c]

RECURSIVE ConcatAll(_)
ConcatAll(ss) == IF ss = <<>> THEN <<>> ELSE Head(ss) \o ConcatAll(Tail(ss))

\* The check of one children entry, without the look at the child's parentId.
childErrorExistenceOnly(tree, nodeId, childId) ==
    IF ~HasNode(tree.nodes, childId)
    THEN <<Err("references non-existent child", nodeId, JsString(childId).s, "")>>
    ELSE <<>>

\* validateTree: the check of one entry of node.children.
childError(tree, nodeId, childId) ==
    IF ~HasNode(tree.nodes, childId)
    THEN <<Err("references non-existent child", nodeId, JsString(childId).s, "")>>
    ELSE LET childNode == tree.nodes[JsString(childId).s] IN
         IF ~StrictEq(childNode.parentId, Str(nodeId))
         THEN <<Err("parentId does not match parent", JsString(childId).s,
                    JsString(childNode.parentId).s, nodeId)>>
         ELSE <<>>

\* Reading a property of null or undefined.
TypeError == "TypeError: Cannot read properties of null"

\* The tests of the loop body with the non-existent parent test left out.
nodeChecksNoParentTest(tree, nodeId) ==
    LET node == tree.nodes[nodeId] IN
    IF node.k \in {"null", "undefined"} THEN <<Err(TypeError, nodeId, "", "")>>
    ELSE
      (IF ~StrictEq(node.id, Str(nodeId))
       THEN <<Err("has mismatched ID", nodeId, JsString(node.id).s, "")>> ELSE <<>>)
      \o
      (IF node.children.k # "array"
       THEN <<Err("has invalid children property", nodeId, "", "")>>
       ELSE ConcatAll([i \in DOMAIN node.children.a |->
                         childError(tree, nodeId, node.children.a[i])]))
      \o
      (IF node.fen.k # "string"
       THEN <<Err("must have a valid fen string", nodeId, "", "")>> ELSE <<>>)
      \o
      (IF node.ply.k # "number"
       THEN <<Err("must have a valid ply number", nodeId, "", "")>> ELSE <<>>)

\* validateTree: the tests of the loop body that read the node's properties.
nodeChecks(tree, nodeId) ==
    LET node == tree.nodes[nodeId] IN
    IF node.k \in {"null", "undefined"} THEN <<Err(TypeError, nodeId, "", "")>>
    ELSE
      (IF ~StrictEq(node.id, Str(nodeId))
       THEN <<Err("has mismatched ID", nodeId, JsString(node.id).s, "")>> ELSE <<>>)
      \o
      (IF node.parentId # Null /\ ~HasNode(tree.nodes, node.parentId)
       THEN <<Err("references non-existent parent", nodeId, JsString(node.parentId).s, "")>>
       ELSE <<>>)
      \o
      (IF node.children.k # "array"
       THEN <<Err("has invalid children property", nodeId, "", "")>>
       ELSE ConcatAll([i \in DOMAIN node.children.a |->
                         childError(tree, nodeId, node.children.a[i])]))
      \o
      (IF node.fen.k # "string"
       THEN <<Err("must have a valid fen string", nodeId, "", "")>> ELSE <<>>)
      \o
      (IF node.ply.k # "number"
       THEN <<Err("must have a valid ply number", nodeId, "", "")>> ELSE <<>>)

\* The loop body without its `!node` test.
nodeErrorsNoObjectTest(tree, nodeId) == nodeChecks(tree, nodeId)

\* validateTree: the body of the loop over Object.entries(tree.nodes).
nodeErrors(tree, nodeId) ==
    IF tree.nodes[nodeId].k # "object" THEN <<Err("is not an object", nodeId, "", "")>>
    ELSE nodeChecks(tree, nodeId)

\* What a call of validateTree gives: a result object, or an exception.
Invalid(msg) ==
    [ran |-> TRUE, raised |-> FALSE, isValid |-> FALSE, errors |-> <<Err(msg, "", "", "")>>]
Raised == [ran |-> TRUE, raised |-> TRUE, isValid |-> FALSE, errors |-> <<>>]

validateTree(tree) ==
    IF tree.k # "object" THEN Invalid("Tree must be an object")
    ELSE IF tree.nodesK # "object" THEN Invalid("Tree must have a nodes property")
    ELSE IF ~Truthy(tree.rootId) THEN Invalid("Tree must have a rootId string property")
    ELSE
    LET root == JsString(tree.rootId).s
        errors ==
          (IF ~HasNode(tree.nodes, tree.rootId)
           THEN <<Err("Root node does not exist in nodes", root, "", "")>> ELSE <<>>)
          \o
          (IF HasNode(tree.nodes, tree.rootId) /\ tree.nodes[root].parentId # Null
           THEN <<Err("Root node should have parentId null", root,
                      JsString(tree.nodes[root].parentId).s, "")>>
           ELSE <<>>)
          \o
          ConcatAll([i \in DOMAIN objectKeys(tree.nodes) |->
                       nodeErrors(tree, objectKeys(tree.nodes)[i])])
    IN IF \E i \in DOMAIN errors : errors[i].msg = TypeError THEN Raised
       ELSE [ran |-> TRUE, raised |-> FALSE, isValid |-> (Len(errors) = 0), errors |-> errors]

NoReport == [ran |-> FALSE, raised |-> FALSE, isValid |-> FALSE, errors |-> <<>>]

----------------------------------------------------------------------------
(* main.ts: printTreeStats *)

\* What a call gives instead of a number: the call stack is used up
\* (RangeError), or a property of undefined is read (TypeError).
StackOverflow == -1
DepthTypeError == -2

\* The call stack: a chain of calls longer than this does not return.
CallStack(t) == Cardinality(DOMAIN t.nodes) + 2

MaxOf(numbers) == CHOOSE n \in numbers : \A other \in numbers : other <= n

\* calculateDepth without the test of visited.
RECURSIVE calculateDepthNoVisited(_, _, _, _)
calculateDepthNoVisited(t, nodeId, visited, stack) ==
    IF stack = 0 THEN StackOverflow
    ELSE IF ~HasNode(t.nodes, nodeId) THEN 0
    ELSE
    LET node == t.nodes[JsString(nodeId).s] IN
    IF node.children.k # "array" THEN DepthTypeError
    ELSE IF Len(node.children.a) = 0 THEN 1
    ELSE
    LET childDepth == [i \in DOMAIN node.children.a |->
                         calculateDepthNoVisited(t, node.children.a[i],
                                                 visited \cup {JsString(nodeId).s}, stack - 1)]
        failed == SelectSeq(childDepth, LAMBDA d : d < 0)
    IN IF failed # <<>> THEN Head(failed)
       ELSE MaxOf({ childDepth[i] : i \in DOMAIN childDepth }) + 1

\* calculateDepth(nodeId, visited): each child is given its own copy of
\* visited, so visited is the set of nodes on the path from the root.
RECURSIVE calculateDepth(_, _, _, _)
calculateDepth(t, nodeId, visited, stack) ==
    IF stack = 0 THEN StackOverflow
    ELSE IF JsString(nodeId).s \in visited THEN 0
    ELSE IF ~HasNode(t.nodes, nodeId) THEN 0
    ELSE
    LET node == t.nodes[JsString(nodeId).s] IN
    IF node.children.k # "array" THEN DepthTypeError
    ELSE IF Len(node.children.a) = 0 THEN 1
    ELSE
    LET childDepth == [i \in DOMAIN node.children.a |->
                         calculateDepth(t, node.children.a[i],
                                        visited \cup {JsString(nodeId).s}, stack - 1)]
        failed == SelectSeq(childDepth, LAMBDA d : d < 0)
    IN IF failed # <<>> THEN Head(failed)
       ELSE MaxOf({ childDepth[i] : i \in DOMAIN childDepth }) + 1

NoStats == [ran |-> FALSE, maxDepth |-> 0]

----------------------------------------------------------------------------
(* chess_move_tree.tsx: the state of ChessBranchingExample *)

VARIABLES
    nodes,      \* useState: Record<NodeId, MoveNode>
    rootId,     \* useState: the root id, never set again
    currentId,  \* useState: the cursor
    statusMsg,  \* useState: the status line
    genN,       \* the counter n closed over by genId
    lastOp,     \* history: the handler that ran last
    tree,       \* codec: the tree handed to serializeTree / validateTree
    edits,      \* codec history: how tree was changed after it was built
    wire,       \* codec: what serializeTree(tree) gave
    decoded,    \* codec: what deserializeTree(wire.text) gave
    report,     \* codec: what validateTree gave, and for which tree
    json2,      \* codec: what serializeTree(decoded.tree) gave
    stats,      \* printTreeStats: maxDepth, once it has been computed
    game        \* GameService: MongoDB, Redis and the requests in flight

sessionVars == <<nodes, rootId, currentId, statusMsg, genN, lastOp>>
codecVars == <<tree, edits, wire, decoded, report, json2, stats>>
gameVars == <<game>>
vars == <<nodes, rootId, currentId, statusMsg, genN, lastOp,
          tree, edits, wire, decoded, report, json2, stats, game>>

\* { ...m, [k]: v }
Put(m, k, v) == [x \in DOMAIN m \cup {k} |-> IF x = k THEN v ELSE m[x]]

\* What a render throws on: renderNode recursing past every node (a cycle
\* among children) or reading a node that is not in the map.
RenderError == "#render-error"

\* renderNode: the ids of the buttons it draws below nodeId.
RECURSIVE renderNode(_, _, _)
renderNode(ns, nodeId, depth) ==
    IF nodeId \notin DOMAIN ns \/ depth > Cardinality(DOMAIN ns)
    THEN {RenderError}
    ELSE {nodeId} \cup
         UNION { renderNode(ns, ns[nodeId].children.a[i].s, depth + 1) :
                   i \in DOMAIN ns[nodeId].children.a }

\* The component is on screen: its last render did not throw, so its
\* handlers can still be invoked.
Mounted ==
    /\ currentId \in DOMAIN nodes
    /\ RenderError \notin renderNode(nodes, rootId, 0)

\* The component right after it is mounted: makeInitialTree has called
\* genId("r") once, so genId's counter stands at 2.
InitSession ==
    /\ nodes = makeInitialTree.nodes
    /\ rootId = makeInitialTree.rootId
    /\ currentId = makeInitialTree.rootId
    /\ statusMsg = "Click a piece, then a destination to make a move."
    /\ genN = 2
    /\ lastOp = "init"

\* No codec call has been made.
CodecIdle ==
    /\ tree = NoTree
    /\ edits = <<>>
    /\ wire = NotRun
    /\ decoded = NotRun
    /\ report = [of |-> "none", result |-> NoReport]
    /\ json2 = NotRun
    /\ stats = NoStats

----------------------------------------------------------------------------
(* GameService: a problem-solving game kept in MongoDB and Redis *)

\* The number of HTTP requests made on the game, each by its own async
\* call of movePiece or endGame.
MaxRequests == 3

Requests == 1..MaxRequests

\* The moves a request can ask for. A position is written as the moves
\* played from the problem's fen.
GameMoves == {"Nf3", "Qh5#"}

\* chess.js isGameOver(): the mating move has been played.
isGameOver(pos) == pos # <<>> /\ pos[Len(pos)] = "Qh5#"

\* chess.js move(): null when the game is over or the piece has moved
\* already, else the move is played.
gameMoveLegal(pos, mv) == ~isGameOver(pos) /\ \A i \in DOMAIN pos : pos[i] # mv

\* An InProgressProblem document of the one user and problem; id is its
\* _id, the place it has in the collection.
InProgressProblem(id, currentFen, movesMade, isCompleted) ==
    [found |-> TRUE, id |-> id, currentFen |-> currentFen, movesMade |-> movesMade,
     isCompleted |-> isCompleted]

\* findOne gave null.
NoDocument ==
    [found |-> FALSE, id |-> 0, currentFen |-> <<>>, movesMade |-> <<>>,
     isCompleted |-> FALSE]

\* A request that has not been made. late: the request arrived after an
\* endGame had answered 200 and before a createGame was answered.
NoRequest ==
    [op |-> "none", pc |-> "idle", mv |-> "", activeGame |-> NoDocument,
     fen |-> <<>>, status |-> 0, late |-> FALSE]

\* The game right after createGame: the document is saved with no moves and
\* the position is stored in Redis under (userId, problemId). docs is the
\* InProgressProblem collection in insertion order; ended: the last answer
\* of endGame or createGame was endGame's 200.
GameCreated ==
    [docs |-> <<InProgressProblem(1, <<>>, <<>>, FALSE)>>,
     redis |-> [present |-> TRUE, fen |-> <<>>],
     snapshots |-> <<>>,
     accepted |-> <<>>,
     ended |-> FALSE,
     req |-> [p \in Requests |-> NoRequest]]

InitGame == game = GameCreated

----------------------------------------------------------------------------
(* chess_move_tree.tsx: the handlers of ChessBranchingExample *)

Init == InitSession /\ CodecIdle /\ InitGame

\* gotoNode(id)
gotoNode(id) ==
    /\ currentId' = id
    /\ statusMsg' = ""
    /\ lastOp' = "gotoNode"
    /\ UNCHANGED <<nodes, rootId, genN>>

\* goBack without the root test: the parent id is followed even when it is null.
goBackNoRootTest ==
    /\ currentId' = nodes[currentId].parentId.s
    /\ lastOp' = "goBack"
    /\ UNCHANGED <<nodes, rootId, statusMsg, genN>>

\* goBack()
goBack ==
    LET cur == nodes[currentId] IN
    /\ IF ~Truthy(cur.parentId)
       THEN /\ statusMsg' = "Already at root."
            /\ UNCHANGED currentId
       ELSE /\ currentId' = cur.parentId.s
            /\ UNCHANGED statusMsg
    /\ lastOp' = "goBack"
    /\ UNCHANGED <<nodes, rootId, genN>>

\* The "Reset to start" button.
resetToStart ==
    /\ currentId' = rootId
    /\ lastOp' = "resetToStart"
    /\ UNCHANGED <<nodes, rootId, statusMsg, genN>>

\* The updater writing the new node over the parent's entry as well, in place
\* of the parent's copy with the longer children.
appendChildOverParent(prev, parentId, newId, node) ==
    Put(Put(prev, newId, node), parentId, node)

\* The updater handed to setNodes: the new node is put under newId and
\* newId is appended to the children of a copy of the parent.
appendChild(prev, parentId, newId, node) ==
    LET copy == Put(prev, newId, node)
        parent == [copy[parentId] EXCEPT !.children = Arr(Append(@.a, Str(newId)))]
    IN Put(copy, parentId, parent)

\* addMoveUci with genId called ahead of the legality test: a rejected move
\* uses up an id.
addMoveUciConsumesId(from, to, promotion) ==
    LET cur == nodes[currentId]
        mv == [from |-> from, to |-> to,
               promotion |-> IF Truthy(promotion) THEN promotion ELSE Undefined]
        res == chessMove(cur.fen.s, mv)
        newId == genId("n", genN)
        node == MoveNode(Str(newId), Str(currentId), Arr(<<>>), Str(res.san),
                         Str(uciOf(from, to, promotion)), Str(res.fen),
                         Num(cur.ply.n + 1))
    IN
    /\ lastOp' = "addMoveUci"
    /\ genN <= MaxGenId
    /\ genN' = genN + 1
    /\ IF ~res.legal
       THEN /\ statusMsg' = illegalMsg(from, to)
            /\ UNCHANGED <<nodes, rootId, currentId>>
       ELSE /\ nodes' = appendChild(nodes, currentId, newId, node)
            /\ currentId' = newId
            /\ statusMsg' = playedMsg(res.san)
            /\ UNCHANGED rootId

\* addMoveUci moving the cursor to an id genId makes anew with the prefix
\* "r", which no entry of the node map has, in place of the id of the node
\* just stored.
addMoveUciCursorAhead(from, to, promotion) ==
    LET cur == nodes[currentId]
        mv == [from |-> from, to |-> to,
               promotion |-> IF Truthy(promotion) THEN promotion ELSE Undefined]
        res == chessMove(cur.fen.s, mv)
        newId == genId("n", genN)
        node == MoveNode(Str(newId), Str(currentId), Arr(<<>>), Str(res.san),
                         Str(uciOf(from, to, promotion)), Str(res.fen),
                         Num(cur.ply.n + 1))
    IN
    /\ lastOp' = "addMoveUci"
    /\ IF ~res.legal
       THEN /\ statusMsg' = illegalMsg(from, to)
            /\ UNCHANGED <<nodes, rootId, currentId, genN>>
       ELSE /\ genN <= MaxGenId
            /\ genN' = genN + 1
            /\ nodes' = appendChild(nodes, currentId, newId, node)
            /\ currentId' = genId("r", genN + 1)
            /\ statusMsg' = playedMsg(res.san)
            /\ UNCHANGED rootId

\* addMoveUci(from, to, promotion)
addMoveUci(from, to, promotion) ==
    LET cur == nodes[currentId]
        mv == [from |-> from, to |-> to,
               promotion |-> IF Truthy(promotion) THEN promotion ELSE Undefined]
        res == chessMove(cur.fen.s, mv)
        newId == genId("n", genN)
        node == MoveNode(Str(newId), Str(currentId), Arr(<<>>), Str(res.san),
                         Str(uciOf(from, to, promotion)), Str(res.fen),
                         Num(cur.ply.n + 1))
    IN
    /\ lastOp' = "addMoveUci"
    /\ IF ~res.legal
       THEN /\ statusMsg' = illegalMsg(from, to)
            /\ UNCHANGED <<nodes, rootId, currentId, genN>>
       ELSE /\ genN <= MaxGenId
            /\ genN' = genN + 1
            /\ nodes' = appendChild(nodes, currentId, newId, node)
            /\ currentId' = newId
            /\ statusMsg' = playedMsg(res.san)
            /\ UNCHANGED rootId

\* The user's clicks: a tree button (gotoNode on a drawn node), Back,
\* Reset to start, or a move on the board.
Next ==
    \/ Mounted /\ UNCHANGED <<codecVars, gameVars>> /\ \E id \in renderNode(nodes, rootId, 0) : gotoNode(id)
    \/ Mounted /\ UNCHANGED <<codecVars, gameVars>> /\ goBack
    \/ Mounted /\ UNCHANGED <<codecVars, gameVars>> /\ resetToStart
    \/ Mounted /\ UNCHANGED <<codecVars, gameVars>> /\ \E r \in MoveRequests : addMoveUci(r.from, r.to, r.promotion)

Spec == Init /\ [][Next]_vars

\* gotoNode is a function of an id: here it is also called with ids that are
\* not drawn as buttons, among them one that is no key of the node map.
GotoInputs == DOMAIN nodes \cup {"wrong-id"}

NextGoto ==
    \/ Next
    \/ Mounted /\ UNCHANGED <<codecVars, gameVars>> /\ \E id \in GotoInputs : gotoNode(id)

SpecGoto == Init /\ [][NextGoto]_vars

\* Two calls of addMoveUci made from the same render: both read the same
\* nodes and currentId, genId is called once per accepted move, and the
\* updaters handed to setNodes run one after the other, the second on the
\* result of the first. The last setCurrentId and setStatusMsg win.
addMoveUciTwice(first, second) ==
    LET cur == nodes[currentId]
        res1 == chessMove(cur.fen.s, first)
        res2 == chessMove(cur.fen.s, second)
        id1 == genId("n", genN)
        id2 == genId("n", IF res1.legal THEN genN + 1 ELSE genN)
        node1 == MoveNode(Str(id1), Str(currentId), Arr(<<>>), Str(res1.san),
                          Str(uciOf(first.from, first.to, first.promotion)),
                          Str(res1.fen), Num(cur.ply.n + 1))
        node2 == MoveNode(Str(id2), Str(currentId), Arr(<<>>), Str(res2.san),
                          Str(uciOf(second.from, second.to, second.promotion)),
                          Str(res2.fen), Num(cur.ply.n + 1))
        after1 == IF res1.legal THEN appendChild(nodes, currentId, id1, node1) ELSE nodes
        after2 == IF res2.legal THEN appendChild(after1, currentId, id2, node2) ELSE after1
        accepted == (IF res1.legal THEN 1 ELSE 0) + (IF res2.legal THEN 1 ELSE 0)
    IN
    /\ genN + accepted - 1 <= MaxGenId
    /\ lastOp' = "addMoveUci twice"
    /\ genN' = genN + accepted
    /\ nodes' = after2
    /\ currentId' = IF res2.legal THEN id2 ELSE IF res1.legal THEN id1 ELSE currentId
    /\ statusMsg' = IF res2.legal THEN playedMsg(res2.san)
                    ELSE illegalMsg(second.from, second.to)
    /\ UNCHANGED rootId

\* The session with handlers that can also run twice before the next render.
NextBatched ==
    \/ Next
    \/ Mounted /\ UNCHANGED <<codecVars, gameVars>>
         /\ \E first \in MoveRequests, second \in MoveRequests : addMoveUciTwice(first, second)

SpecBatched == Init /\ [][NextBatched]_vars

----------------------------------------------------------------------------
(* The codec and the validator, driven as main.ts drives them *)

\* Trees of up to MaxNodes nodes below the root are built; up to MaxDefects
\* values of a built tree are then changed.
MaxNodes == 2
MaxDefects == 1

\* testLargeTree: `n${nodeCounter++}`, then `move${nodeCounter}`, ...
LargeTreeIds == <<"n1", "n2", "n3", "n4">>
LargeTreeMoves == <<"move2", "move3", "move4", "move5">>
LargeTreeUcis == <<"uci2", "uci3", "uci4", "uci5">>
LargeTreeFens == <<"fen2", "fen3", "fen4", "fen5">>

\* testLargeTree: the root it starts from.
largeTreeRoot ==
    Tree("r1" :> MoveNode(Str("r1"), Null, Arr(<<>>), Undefined, Undefined,
                          Str("rnbqkbnr/pppppppp/8/8/8/8/PPPPPPPP/RNBQKBNR w KQkq - 0 1"),
                          Num(0)),
         Str("r1"))

\* testLargeTree: node number i is stored under its parent and pushed onto
\* the parent's children.
largeTreeAdd(t, i, parentId) ==
    LET nodeId == LargeTreeIds[i]
        node == MoveNode(Str(nodeId), Str(parentId), Arr(<<>>), Str(LargeTreeMoves[i]),
                         Str(LargeTreeUcis[i]), Str(LargeTreeFens[i]),
                         Num(t.nodes[parentId].ply.n + 1))
        withNode == Put(t.nodes, nodeId, node)
    IN [t EXCEPT !.nodes =
          [withNode EXCEPT ![parentId].children = Arr(Append(@.a, Str(nodeId)))]]

\* Every tree of exactly size nodes below the root, whatever the parents.
RECURSIVE TreesOfSize(_)
TreesOfSize(size) ==
    IF size = 0 THEN {largeTreeRoot}
    ELSE { largeTreeAdd(pt[1], size, pt[2]) :
             pt \in { q \in TreesOfSize(size - 1) \X {"r1", "n1", "n2", "n3", "n4"} :
                        q[2] \in DOMAIN q[1].nodes } }

BuiltTrees == UNION { TreesOfSize(size) : size \in 0..MaxNodes }

\* t with one field of the node under key replaced.
WithParentId(t, key, v) == [t EXCEPT !.nodes[key].parentId = v]
WithId(t, key, v) == [t EXCEPT !.nodes[key].id = v]
WithPly(t, key, v) == [t EXCEPT !.nodes[key].ply = v]
WithMove(t, key, v) == [t EXCEPT !.nodes[key].move = v]
WithUci(t, key, v) == [t EXCEPT !.nodes[key].uci = v]
WithFen(t, key, v) == [t EXCEPT !.nodes[key].fen = v]
WithChild(t, key, v) == [t EXCEPT !.nodes[key].children = Arr(Append(@.a, v))]
WithoutChild(t, key, i) ==
    [t EXCEPT !.nodes[key].children =
        Arr(SubSeq(@.a, 1, i - 1) \o SubSeq(@.a, i + 1, Len(@.a)))]

Change(kind, key, t) == [kind |-> kind, node |-> key, tree |-> t]

ChildIds(t, key) == { t.nodes[key].children.a[i] : i \in DOMAIN t.nodes[key].children.a }

\* The ways main.ts breaks a tree (testTreeValidation), and the other single
\* values a stored tree can differ in: each gives t with one value changed.
Defects(t) ==
    LET keys == DOMAIN t.nodes
        ids == { Str(key) : key \in keys }
    IN
    { Change("parentId", kv[1], WithParentId(t, kv[1], kv[2])) :
        kv \in { q \in keys \X ({Null, Str("wrong-parent")} \cup ids) :
                   q[2] # t.nodes[q[1]].parentId } }
    \cup
    { Change("id", kv[1], WithId(t, kv[1], kv[2])) :
        kv \in { q \in keys \X ({Str("wrong-id")} \cup ids) : q[2] # t.nodes[q[1]].id } }
    \cup
    { Change("child-missing", key, WithChild(t, key, Str("ghost"))) : key \in keys }
    \cup
    { Change("child-of-other", kv[1], WithChild(t, kv[1], kv[2])) :
        kv \in { q \in keys \X ids : /\ q[2] \notin ChildIds(t, q[1])
                                     /\ t.nodes[q[2].s].parentId # Str(q[1]) } }
    \cup
    { Change("child-twice", kv[1], WithChild(t, kv[1], kv[2])) :
        kv \in { q \in keys \X ids : q[2] \in ChildIds(t, q[1]) } }
    \cup
    { Change("child-dropped", kv[1], WithoutChild(t, kv[1], kv[2])) :
        kv \in { q \in keys \X (1..(MaxNodes + MaxDefects)) :
                   q[2] \in DOMAIN t.nodes[q[1]].children.a } }
    \cup
    { Change("rootId", "", [t EXCEPT !.rootId = v]) :
        v \in (ids \cup {Str("ghost")}) \ {t.rootId} }
    \cup
    { Change("ply", kv[1], WithPly(t, kv[1], Num(kv[2]))) :
        kv \in { q \in keys \X (0..(MaxNodes + 1)) : Num(q[2]) # t.nodes[q[1]].ply } }
    \cup
    { Change("move", kv[1], WithMove(t, kv[1], kv[2])) :
        kv \in { q \in keys \X {Undefined, Str("Qh5")} : q[2] # t.nodes[q[1]].move } }
    \cup
    { Change("uci", kv[1], WithUci(t, kv[1], kv[2])) :
        kv \in { q \in keys \X {Undefined, Str("d1h5")} : q[2] # t.nodes[q[1]].uci } }
    \cup
    { Change("fen", key, WithFen(t, key, Str("8/8/8/8/8/8/8/8 w - - 0 1"))) : key \in keys }

\* A tree is built, as testLargeTree builds one.
InitCodec ==
    /\ InitSession
    /\ InitGame
    /\ tree \in BuiltTrees
    /\ edits = <<>>
    /\ wire = NotRun
    /\ decoded = NotRun
    /\ report = [of |-> "none", result |-> NoReport]
    /\ json2 = NotRun
    /\ stats = NoStats

\* Nothing has been computed from tree yet.
Fresh == wire = NotRun /\ report.of = "none" /\ ~stats.ran

\* One value of the tree is changed before it is used.
Corrupt ==
    /\ Fresh
    /\ Len(edits) < MaxDefects
    /\ \E d \in Defects(tree) :
         /\ tree' = d.tree
         /\ edits' = Append(edits, [kind |-> d.kind, node |-> d.node])
    /\ UNCHANGED <<wire, decoded, report, json2, stats>>

\* validateTree(tree), with a repair of what it finds: every node's id is
\* set to its key.
ValidateTreeRepairs ==
    /\ Fresh
    /\ report' = [of |-> "tree", result |-> validateTree(tree)]
    /\ tree' = [tree EXCEPT !.nodes =
                  [key \in DOMAIN tree.nodes |-> [tree.nodes[key] EXCEPT !.id = Str(key)]]]
    /\ UNCHANGED <<edits, wire, decoded, json2, stats>>

\* validateTree(tree)
ValidateTree ==
    /\ Fresh
    /\ report' = [of |-> "tree", result |-> validateTree(tree)]
    /\ UNCHANGED <<tree, edits, wire, decoded, json2, stats>>

\* const jsonString = serializeTree(tree)
SerializeTree ==
    /\ Fresh
    /\ wire' = serializeTree(tree)
    /\ UNCHANGED <<tree, edits, decoded, report, json2, stats>>

\* const deserialized = deserializeTree(jsonString)
DeserializeTree ==
    /\ wire.ok
    /\ ~decoded.ran
    /\ decoded' = deserializeTree(wire.text)
    /\ UNCHANGED <<tree, edits, wire, report, json2, stats>>

\* validateTree(deserialized)
ValidateDecoded ==
    /\ decoded.ok
    /\ report.of = "none"
    /\ ~json2.ran
    /\ report' = [of |-> "decoded", result |-> validateTree(decoded.tree)]
    /\ UNCHANGED <<tree, edits, wire, decoded, json2, stats>>

NextCodec ==
    \/ Corrupt /\ UNCHANGED <<sessionVars, gameVars>>
    \/ ValidateTree /\ UNCHANGED <<sessionVars, gameVars>>
    \/ SerializeTree /\ UNCHANGED <<sessionVars, gameVars>>
    \/ DeserializeTree /\ UNCHANGED <<sessionVars, gameVars>>
    \/ ValidateDecoded /\ UNCHANGED <<sessionVars, gameVars>>

SpecCodec == InitCodec /\ [][NextCodec]_vars

----------------------------------------------------------------------------
(* The codec and the validator on inputs of any shape *)

\* A nodes entry that is null: no property of it can be read.
NullNode ==
    [k |-> "null", id |-> Undefined, parentId |-> Undefined, children |-> Undefined,
     move |-> Undefined, uci |-> Undefined, fen |-> Undefined, ply |-> Undefined]

\* null passed where a tree is expected, as testErrorHandling does.
NullTree == [k |-> "null", nodesK |-> "undefined", nodes |-> NoNodes, rootId |-> Undefined]

\* A one-node tree whose key is the integer key "1" and whose id is the
\* number 1.
numberedTree ==
    Tree("1" :> MoveNode(Num(1), Null, Arr(<<>>), Undefined, Undefined,
                         Str("rnbqkbnr/pppppppp/8/8/8/8/PPPPPPPP/RNBQKBNR w KQkq - 0 1"),
                         Num(0)),
         Str("1"))

\* The whole-tree shapes testErrorHandling passes: no tree, a tree without
\* nodes, a tree without rootId; and the object with neither.
TreeTypeDefects(t) ==
    { Change("tree-absent", "", NullTree),
      Change("members-missing", "",
             [t EXCEPT !.nodesK = "undefined", !.nodes = NoNodes, !.rootId = Undefined]),
      Change("nodes-missing", "", [t EXCEPT !.nodesK = "undefined", !.nodes = NoNodes]),
      Change("rootId-missing", "", [t EXCEPT !.rootId = Undefined]) }

\* One node given a value of a type MoveNode does not declare.
NodeTypeDefects(t) ==
    LET keys == DOMAIN t.nodes IN
    { Change("node-null", key, [t EXCEPT !.nodes[key] = NullNode]) : key \in keys }
    \cup
    { Change("children-not-array", key, [t EXCEPT !.nodes[key].children = Undefined]) :
        key \in keys }
    \cup
    { Change("ply-not-number", kv[1], WithPly(t, kv[1], kv[2])) :
        kv \in keys \X {Undefined, NaN, Str("1")} }
    \cup
    { Change("parentId-missing", key, WithParentId(t, key, Undefined)) : key \in keys }
    \cup
    { Change("id-number", key, WithId(t, key, Num(1))) : key \in keys }
    \cup
    { Change("fen-missing", key, WithFen(t, key, Undefined)) : key \in keys }

TypeDefectKinds ==
    {"tree-absent", "members-missing", "nodes-missing", "rootId-missing", "node-null", "children-not-array",
     "ply-not-number", "parentId-missing", "id-number", "fen-missing"}

Mistyped == \E i \in DOMAIN edits : edits[i].kind \in TypeDefectKinds

\* A tree is built, or the one-node tree with the integer key is taken.
InitPayload ==
    /\ InitSession
    /\ InitGame
    /\ tree \in BuiltTrees \cup {numberedTree}
    /\ edits = <<>>
    /\ wire = NotRun
    /\ decoded = NotRun
    /\ report = [of |-> "none", result |-> NoReport]
    /\ json2 = NotRun
    /\ stats = NoStats

\* One value of the tree is changed as in Corrupt, while no value has a
\* wrong type yet.
CorruptPayload == ~Mistyped /\ Corrupt

\* The tree gets one value of a wrong type, or loses nodes or rootId, before
\* it is used.
Mistype ==
    /\ Fresh
    /\ ~Mistyped
    /\ \E d \in TreeTypeDefects(tree) \cup (IF edits = <<>> THEN NodeTypeDefects(tree) ELSE {}) :
         /\ tree' = d.tree
         /\ edits' = Append(edits, [kind |-> d.kind, node |-> d.node])
    /\ UNCHANGED <<wire, decoded, report, json2, stats>>

\* The texts deserializeTree is handed that serializeTree did not write: an
\* empty string, text that is no JSON, and JSON.stringify of the tree as it
\* stands where serializeTree refuses the tree or writes something else.
BlankText == [kind |-> "blank", doc |-> NoTree]
GarbageText == [kind |-> "garbage", doc |-> NoTree]

ReceivedTexts ==
    ({JSONstringify(tree)} \ {serializeTree(tree).text})
    \cup (IF edits = <<>> THEN {BlankText, GarbageText} ELSE {})

\* const jsonString = a text from elsewhere
ReceiveText ==
    /\ Fresh
    /\ \E text \in ReceivedTexts :
         /\ wire' = ReturnedText(text)
         /\ edits' = Append(edits, [kind |-> "received", node |-> text.kind])
    /\ UNCHANGED <<tree, decoded, report, json2, stats>>

\* testRoundTrip: const json2 = serializeTree(deserialized)
SerializeDecoded ==
    /\ decoded.ok
    /\ report.of = "none"
    /\ ~json2.ran
    /\ json2' = serializeTree(decoded.tree)
    /\ UNCHANGED <<tree, edits, wire, decoded, report, stats>>

NextPayload ==
    \/ CorruptPayload /\ UNCHANGED <<sessionVars, gameVars>>
    \/ Mistype /\ UNCHANGED <<sessionVars, gameVars>>
    \/ ValidateTree /\ UNCHANGED <<sessionVars, gameVars>>
    \/ SerializeTree /\ UNCHANGED <<sessionVars, gameVars>>
    \/ ReceiveText /\ UNCHANGED <<sessionVars, gameVars>>
    \/ DeserializeTree /\ UNCHANGED <<sessionVars, gameVars>>
    \/ ValidateDecoded /\ UNCHANGED <<sessionVars, gameVars>>
    \/ SerializeDecoded /\ UNCHANGED <<sessionVars, gameVars>>

SpecPayload == InitPayload /\ [][NextPayload]_vars

----------------------------------------------------------------------------
(* printTreeStats on the trees of the codec *)

\* printTreeStats(tree): maxDepth = calculateDepth(tree.rootId)
PrintTreeStats ==
    /\ Fresh
    /\ tree.k = "object" /\ tree.nodesK = "object"
    /\ stats' = [ran |-> TRUE,
                 maxDepth |-> calculateDepth(tree, tree.rootId, {}, CallStack(tree))]
    /\ UNCHANGED <<tree, edits, wire, decoded, report, json2>>

NextStats ==
    \/ CorruptPayload /\ UNCHANGED <<sessionVars, gameVars>>
    \/ Mistype /\ UNCHANGED <<sessionVars, gameVars>>
    \/ PrintTreeStats /\ UNCHANGED <<sessionVars, gameVars>>

SpecStats == InitPayload /\ [][NextStats]_vars

----------------------------------------------------------------------------
(* GameService.createGame, movePiece and endGame, one step per await *)

\* The documents that match { userId, problemId, isCompleted: false }.
ActiveDocs == { i \in DOMAIN game.docs : ~game.docs[i].isCompleted }

\* InProgressProblem.findOne({ userId, problemId, isCompleted: false }): a
\* fresh copy of the first stored document that matches, or null.
findOneActive ==
    IF ActiveDocs = {} THEN NoDocument
    ELSE game.docs[CHOOSE i \in ActiveDocs : \A j \in ActiveDocs : i <= j]

\* res.status(code).json(...): the request is answered.
Respond(r, code) == [r EXCEPT !.pc = "done", !.status = code]

\* POST /move arrives: movePiece starts and awaits findOne.
MovePieceCall(p, mv) ==
    /\ game.req[p].pc = "idle"
    /\ game' = [game EXCEPT !.req[p] =
                  [@ EXCEPT !.op = "movePiece", !.mv = mv, !.pc = "mp-findOne",
                            !.late = game.ended]]

\* movePiece: findOne resolves; 404 without an active game, else hGet is
\* awaited.
MovePieceFindOne(p) ==
    /\ game.req[p].pc = "mp-findOne"
    /\ game' = [game EXCEPT !.req[p] =
                  IF ~findOneActive.found THEN Respond(@, 404)
                  ELSE [@ EXCEPT !.activeGame = findOneActive, !.pc = "mp-hGet"]]

\* movePiece: hGet resolves; 404 without stored game data, 400 on a move the
\* engine rejects; else the move is played on the position read, the
\* in-memory document is updated, and either endGame is entered (game over)
\* or hSet is awaited.
MovePieceHGet(p) ==
    LET r == game.req[p]
        pos == game.redis.fen
        after == Append(pos, r.mv)
        doc == [r.activeGame EXCEPT !.currentFen = after,
                                    !.movesMade = Append(@, r.mv)]
    IN
    /\ r.pc = "mp-hGet"
    /\ IF ~game.redis.present THEN game' = [game EXCEPT !.req[p] = Respond(r, 404)]
       ELSE IF ~gameMoveLegal(pos, r.mv) THEN game' = [game EXCEPT !.req[p] = Respond(r, 400)]
       ELSE game' = [game EXCEPT
                       !.accepted = Append(@, [mv |-> r.mv, on |-> pos]),
                       !.req[p] = [r EXCEPT !.activeGame = doc, !.fen = after,
                                            !.pc = IF isGameOver(after) THEN "eg-findOne"
                                                   ELSE "mp-hSet"]]

\* movePiece: hSet resolves, the position is stored, 200 is answered.
MovePieceHSet(p) ==
    /\ game.req[p].pc = "mp-hSet"
    /\ game' = [game EXCEPT !.redis = [present |-> TRUE, fen |-> game.req[p].fen],
                            !.req[p] = Respond(@, 200)]

\* POST /end arrives: endGame starts and awaits findOne.
EndGameCall(p) ==
    /\ game.req[p].pc = "idle"
    /\ game' = [game EXCEPT !.req[p] =
                  [@ EXCEPT !.op = "endGame", !.pc = "eg-findOne", !.late = game.ended]]

\* endGame: findOne resolves; 404 without an active game, else isCompleted
\* is set on the document just read and save is awaited.
EndGameFindOne(p) ==
    /\ game.req[p].pc = "eg-findOne"
    /\ game' = [game EXCEPT !.req[p] =
                  IF ~findOneActive.found THEN Respond(@, 404)
                  ELSE [@ EXCEPT !.activeGame = [findOneActive EXCEPT !.isCompleted = TRUE],
                                 !.pc = "eg-save"]]

\* endGame: activeGame.save() resolves: the modified path isCompleted is
\* written; hGet is awaited.
EndGameSave(p) ==
    /\ game.req[p].pc = "eg-save"
    /\ game' = [game EXCEPT !.docs[game.req[p].activeGame.id].isCompleted = TRUE,
                            !.req[p].pc = "eg-hGet"]

\* endGame: hGet resolves; 404 without stored game data, else the snapshot
\* is built from the document and its save is awaited.
EndGameHGet(p) ==
    /\ game.req[p].pc = "eg-hGet"
    /\ game' = [game EXCEPT !.req[p] =
                  IF ~game.redis.present THEN Respond(@, 404)
                  ELSE [@ EXCEPT !.pc = "eg-snapshot"]]

\* endGame: snapshot.save() resolves; hDel is awaited.
EndGameSnapshotSave(p) ==
    /\ game.req[p].pc = "eg-snapshot"
    /\ game' = [game EXCEPT
                  !.snapshots = Append(@, [movesTaken |-> game.req[p].activeGame.movesMade,
                                           accepted |-> game.accepted,
                                           doc |-> game.req[p].activeGame.id]),
                  !.req[p].pc = "eg-hDel"]

\* endGame: hDel resolves, 200 is answered.
EndGameHDel(p) ==
    /\ game.req[p].pc = "eg-hDel"
    /\ game' = [game EXCEPT !.redis.present = FALSE, !.req[p] = Respond(@, 200),
                            !.ended = TRUE]

\* POST /create arrives: createGame starts and awaits ChessProblem.findById.
CreateGameCall(p) ==
    /\ game.req[p].pc = "idle"
    /\ game' = [game EXCEPT !.req[p] = [@ EXCEPT !.op = "createGame", !.pc = "cg-findById"]]

\* createGame: findById resolves with the problem; findOne is awaited.
CreateGameFindById(p) ==
    /\ game.req[p].pc = "cg-findById"
    /\ game' = [game EXCEPT !.req[p].pc = "cg-findOne"]

\* createGame is answered: the requests in flight are no longer late.
Created(g, p, code) ==
    [g EXCEPT !.ended = FALSE,
              !.req = [q \in Requests |->
                         IF q = p THEN Respond(g.req[q], code)
                         ELSE [g.req[q] EXCEPT !.late = FALSE]]]

\* createGame: findOne resolves; with an active game 200 is answered
\* (resuming), else a new document is built and its save is awaited.
CreateGameFindOne(p) ==
    /\ game.req[p].pc = "cg-findOne"
    /\ game' = IF findOneActive.found THEN Created(game, p, 200)
               ELSE [game EXCEPT !.req[p].pc = "cg-save"]

\* createGame: newInProgressGame.save() resolves: the document is in the
\* collection; hSet is awaited.
CreateGameSave(p) ==
    /\ game.req[p].pc = "cg-save"
    /\ game' = [game EXCEPT
                  !.docs = Append(@, InProgressProblem(Len(@) + 1, <<>>, <<>>, FALSE)),
                  !.req[p].pc = "cg-hSet"]

\* createGame: hSet resolves: the problem's position is stored in Redis,
\* the id is returned and the controller answers 201.
CreateGameHSet(p) ==
    /\ game.req[p].pc = "cg-hSet"
    /\ game' = Created([game EXCEPT !.redis = [present |-> TRUE, fen |-> <<>>],
                                    !.accepted = <<>>], p, 201)

NextGame ==
    \/ UNCHANGED <<sessionVars, codecVars>> /\ \E p \in Requests : CreateGameCall(p)
    \/ UNCHANGED <<sessionVars, codecVars>> /\ \E p \in Requests : CreateGameFindById(p)
    \/ UNCHANGED <<sessionVars, codecVars>> /\ \E p \in Requests : CreateGameFindOne(p)
    \/ UNCHANGED <<sessionVars, codecVars>> /\ \E p \in Requests : CreateGameSave(p)
    \/ UNCHANGED <<sessionVars, codecVars>> /\ \E p \in Requests : CreateGameHSet(p)
    \/ UNCHANGED <<sessionVars, codecVars>> /\ \E p \in Requests, mv \in GameMoves : MovePieceCall(p, mv)
    \/ UNCHANGED <<sessionVars, codecVars>> /\ \E p \in Requests : MovePieceFindOne(p)
    \/ UNCHANGED <<sessionVars, codecVars>> /\ \E p \in Requests : MovePieceHGet(p)
    \/ UNCHANGED <<sessionVars, codecVars>> /\ \E p \in Requests : MovePieceHSet(p)
    \/ UNCHANGED <<sessionVars, codecVars>> /\ \E p \in Requests : EndGameCall(p)
    \/ UNCHANGED <<sessionVars, codecVars>> /\ \E p \in Requests : EndGameFindOne(p)
    \/ UNCHANGED <<sessionVars, codecVars>> /\ \E p \in Requests : EndGameSave(p)
    \/ UNCHANGED <<sessionVars, codecVars>> /\ \E p \in Requests : EndGameHGet(p)
    \/ UNCHANGED <<sessionVars, codecVars>> /\ \E p \in Requests : EndGameSnapshotSave(p)
    \/ UNCHANGED <<sessionVars, codecVars>> /\ \E p \in Requests : EndGameHDel(p)

SpecGame == Init /\ [][NextGame]_vars

----------------------------------------------------------------------------
(* Properties of the session *)

\* The step just taken is addMoveUci with a move the engine accepted.
AcceptedMove == lastOp' = "addMoveUci" /\ genN' = genN + 1

\* C1: the id given to a new node is not already a key of the node map.
C1_NewIdIsFresh ==
    [][AcceptedMove => currentId' \notin DOMAIN nodes]_vars

\* C2: an accepted move adds exactly one node, and the new node's ply is the
\* parent's ply + 1.
C2_MoveAddsOneNode ==
    [][AcceptedMove =>
         /\ Cardinality(DOMAIN nodes') = Cardinality(DOMAIN nodes) + 1
         /\ nodes'[currentId'].ply = Num(nodes[currentId].ply.n + 1)]_vars

\* C3: a move from a node that has children appends the new id to them and
\* leaves every other node that existed before as it was.
C3_MoveOnlyAppends ==
    [][(AcceptedMove /\ Len(nodes[currentId].children.a) > 0) =>
         /\ nodes'[currentId].children.a =
              Append(nodes[currentId].children.a, Str(currentId'))
         /\ \A id \in DOMAIN nodes \ {currentId} : nodes'[id] = nodes[id]]_vars

\* C7: the session starts from a tree of exactly one node, the root, with
\* ply 0, no parent and no children.
C7_InitialTreeIsSingleRoot ==
    lastOp = "init" =>
        /\ DOMAIN nodes = {rootId}
        /\ nodes[rootId].parentId = Null
        /\ nodes[rootId].children = Arr(<<>>)
        /\ nodes[rootId].ply = Num(0)

\* C8: gotoNode leaves the cursor on a node of the map: an id that is no key
\* is refused and the cursor stays where it was.
C8_GotoNodeRefusesUnknownId ==
    lastOp = "gotoNode" => currentId \in DOMAIN nodes

\* C9: after an accepted move the cursor is the new node, whose parent is
\* the node the cursor was on, and that node's earlier children are all
\* still there, in order, before the new one.
C9_MoveAdvancesCursor ==
    [][AcceptedMove =>
         /\ currentId' \in DOMAIN nodes'
         /\ nodes'[currentId'].parentId = Str(currentId)
         /\ nodes'[currentId].children.a =
              Append(nodes[currentId].children.a, Str(currentId'))]_vars

\* C10: goBack puts the cursor on the parent of the current node, leaves it
\* alone when the current node is the root, and never changes the node map.
C10_GoBack ==
    [][lastOp' = "goBack" =>
         /\ nodes' = nodes
         /\ currentId' = IF currentId = rootId THEN currentId
                         ELSE nodes[currentId].parentId.s]_vars

\* goBack has moved the cursor from a child to its parent below the root.
C10_Witness ==
    /\ lastOp = "goBack"
    /\ currentId # rootId
    /\ \E i \in DOMAIN nodes[currentId].children.a :
         LET c == nodes[currentId].children.a[i].s IN
         c \in DOMAIN nodes /\ nodes[c].parentId = Str(currentId)

\* C11: a move the engine rejects is reported as illegal and changes neither
\* the node map nor the cursor, and uses up no id: every addMoveUci step is
\* the step of some request, and when the engine rejects that request the
\* status names it as illegal while nodes, currentId and the id counter stay.
C11_IllegalMoveChangesNothing ==
    [][lastOp' = "addMoveUci" =>
         \E r \in MoveRequests :
           LET res == chessMove(nodes[currentId].fen.s, r) IN
           IF res.legal
           THEN statusMsg' = playedMsg(res.san)
           ELSE /\ statusMsg' = illegalMsg(r.from, r.to)
                /\ nodes' = nodes
                /\ currentId' = currentId
                /\ genN' = genN]_vars

\* A rejected move has been requested on a node below the root.
C11_Witness ==
    /\ lastOp = "addMoveUci"
    /\ statusMsg = illegalMsg("a7", "a8")
    /\ currentId # rootId
    /\ nodes = makeInitialTree.nodes
    /\ genN = 2

----------------------------------------------------------------------------
(* The data model a tree is meant to satisfy *)

IsId(v) == v.k = "string"

\* Every field has the type MoveNode declares; ply is a non-negative integer.
WellTyped(t) ==
    /\ t.k = "object" /\ t.nodesK = "object" /\ IsId(t.rootId)
    /\ \A key \in DOMAIN t.nodes :
         LET node == t.nodes[key] IN
         /\ node.k = "object"
         /\ IsId(node.id)
         /\ node.parentId = Null \/ IsId(node.parentId)
         /\ node.children.k = "array"
         /\ \A i \in DOMAIN node.children.a : IsId(node.children.a[i])
         /\ node.move = Undefined \/ node.move.k = "string"
         /\ node.uci = Undefined \/ node.uci.k = "string"
         /\ node.fen.k = "string"
         /\ node.ply.k = "number" /\ node.ply # NaN /\ node.ply.n >= 0

\* 1: the root exists and has no parent.
RootExists(t) == t.rootId.s \in DOMAIN t.nodes /\ t.nodes[t.rootId.s].parentId = Null

\* 2: every node's id is its key.
IdsAreKeys(t) == \A key \in DOMAIN t.nodes : t.nodes[key].id = Str(key)

\* 3: every node but the root has a parent that exists.
ParentsExist(t) ==
    \A key \in DOMAIN t.nodes \ {t.rootId.s} :
        IsId(t.nodes[key].parentId) /\ t.nodes[key].parentId.s \in DOMAIN t.nodes

\* 4: every listed child exists and names the listing node as its parent.
ChildrenPointBack(t) ==
    \A key \in DOMAIN t.nodes : \A i \in DOMAIN t.nodes[key].children.a :
        LET c == t.nodes[key].children.a[i].s IN
        c \in DOMAIN t.nodes /\ t.nodes[c].parentId = Str(key)

\* 5: no children list names an id twice.
NoDuplicateChildren(t) ==
    \A key \in DOMAIN t.nodes : \A i, j \in DOMAIN t.nodes[key].children.a :
        t.nodes[key].children.a[i] = t.nodes[key].children.a[j] => i = j

\* 7: the root has ply 0 and every other node its parent's ply + 1.
PlyCounts(t) ==
    \A key \in DOMAIN t.nodes :
        IF key = t.rootId.s THEN t.nodes[key].ply = Num(0)
        ELSE t.nodes[key].parentId.s \in DOMAIN t.nodes =>
               t.nodes[key].ply = Num(t.nodes[t.nodes[key].parentId.s].ply.n + 1)

Invariants1to5and7(t) ==
    /\ RootExists(t) /\ IdsAreKeys(t) /\ ParentsExist(t)
    /\ ChildrenPointBack(t) /\ NoDuplicateChildren(t) /\ PlyCounts(t)

DataModel(t) == WellTyped(t) /\ Invariants1to5and7(t)

----------------------------------------------------------------------------
(* Properties of the codec and the validator *)

\* Same ids, same rootId, and node by node the same parent, children in the
\* same order, move, uci, fen and ply.
SameTree(d, t) ==
    /\ DOMAIN d.nodes = DOMAIN t.nodes
    /\ d.rootId = t.rootId
    /\ \A key \in DOMAIN t.nodes :
         /\ d.nodes[key].id = t.nodes[key].id
         /\ d.nodes[key].parentId = t.nodes[key].parentId
         /\ d.nodes[key].children = t.nodes[key].children
         /\ d.nodes[key].move = t.nodes[key].move
         /\ d.nodes[key].uci = t.nodes[key].uci
         /\ d.nodes[key].fen = t.nodes[key].fen
         /\ d.nodes[key].ply = t.nodes[key].ply

\* C4: a tree that satisfies the data model is encoded, and decoding the
\* encoding gives back the same ids, rootId and node fields.
C4_RoundTrip ==
    DataModel(tree) =>
        /\ wire.ran => wire.ok
        /\ decoded.ran => (decoded.ok /\ SameTree(decoded.tree, tree))

\* A branching tree with a changed move field has made the round trip.
C4_Witness ==
    /\ DataModel(tree)
    /\ decoded.ok
    /\ SameTree(decoded.tree, tree)
    /\ Len(tree.nodes["r1"].children.a) = 2
    /\ tree.nodes["r1"].move = Undefined
    /\ edits # <<>>

\* C5: validateTree answers valid, with no errors, exactly for the trees
\* that satisfy invariants 1-5 and 7.
C5_ValidatorDecidesInvariants ==
    report.of = "tree" =>
        ((report.result.isValid /\ report.result.errors = <<>>)
           <=> Invariants1to5and7(tree))

\* validateTree has an entry that names child c and parent p for every
\* child listed by p whose parentId is not p.
MismatchesNamed(t, errors) ==
    \A p \in DOMAIN t.nodes : \A i \in DOMAIN t.nodes[p].children.a :
        LET c == t.nodes[p].children.a[i].s IN
        (c \in DOMAIN t.nodes /\ t.nodes[c].parentId # Str(p)) =>
            \E j \in DOMAIN errors :
                /\ errors[j].msg = "parentId does not match parent"
                /\ errors[j].a = c
                /\ errors[j].c = p

\* The one change made to a built tree is one of: a parentId made wrong or
\* missing, a child listed by a node that is not its parent, a children
\* entry that names no node, a rootId that names no node, an id that is not
\* the key.
BrokenOnce ==
    /\ Len(edits) = 1
    /\ \/ edits[1].kind \in {"parentId", "child-of-other", "child-missing", "id"}
       \/ edits[1].kind = "rootId" /\ tree.rootId.s \notin DOMAIN tree.nodes

\* C6: each of these defects in an otherwise valid tree is reported:
\* isValid is false, errors is not empty, and a parent/child mismatch is
\* reported with the child's id and the parent's id.
C6_DefectsReported ==
    (report.of = "tree" /\ BrokenOnce) =>
        /\ ~report.result.isValid
        /\ report.result.errors # <<>>
        /\ MismatchesNamed(tree, report.result.errors)

\* A tree whose node n1 was given another parentId has been validated.
C6_Witness ==
    /\ report.of = "tree"
    /\ edits = <<[kind |-> "parentId", node |-> "n1"]>>
    /\ ~report.result.isValid
    /\ \E j \in DOMAIN report.result.errors :
         /\ report.result.errors[j].msg = "parentId does not match parent"
         /\ report.result.errors[j].a = "n1"
         /\ report.result.errors[j].c = "r1"

----------------------------------------------------------------------------
(* Properties of the codec and the validator on inputs of any shape *)

\* wire holds a text that came from elsewhere, not what serializeTree gave.
Received == \E i \in DOMAIN edits : edits[i].kind = "received"

\* The four inputs serializeTree is said to refuse: no tree, no nodes
\* mapping, no rootId, a rootId under which nodes holds no node.
Refused(t) ==
    \/ t.k # "object"
    \/ t.nodesK # "object"
    \/ t.rootId = Undefined
    \/ JsString(t.rootId).s \notin DOMAIN t.nodes
    \/ t.nodes[JsString(t.rootId).s] = NullNode

\* C12: serializeTree fails, with no output, when the tree is absent, has no
\* nodes mapping, has no rootId or has a rootId that is no key of nodes, and
\* returns a string in every other case.
C12_SerializeFailsOnlyOnBadTree ==
    (wire.ran /\ ~Received) =>
        IF Refused(tree) THEN ~wire.ok /\ wire.text = NoText
        ELSE wire.ok /\ wire.text.kind = "json"

\* The errors of deserializeTree by class.
FormatErrors == {"JSON string cannot be empty", "Invalid JSON string"}
MissingNodes == "Tree must have a nodes property"
MissingRootId == "Tree must have a rootId string property"
RootNotFound == "Root node does not exist in nodes"

\* C13: deserializeTree fails with a format error on an empty or invalid
\* text; on a text that spells an object, with a missing-field error when
\* the object has no nodes mapping, else when it has no rootId, and with a
\* not-found error when nodes holds no node under rootId; the tests are made
\* in that order and no tree is returned.
C13_DeserializeErrors ==
    decoded.ran =>
        LET text == wire.text
            doc == text.doc
            failsWith(errors) ==
                ~decoded.ok /\ decoded.error \in errors /\ decoded.tree = NoTree
        IN
        IF text.kind \in {"blank", "garbage"} THEN failsWith(FormatErrors)
        ELSE IF doc.k # "object" THEN TRUE
        ELSE IF doc.nodesK # "object" THEN failsWith({MissingNodes})
        ELSE IF doc.rootId \in {JsonAbsent, Null} THEN failsWith({MissingRootId})
        ELSE IF \/ JsString(doc.rootId).s \notin DOMAIN doc.nodes
                \/ doc.nodes[JsString(doc.rootId).s].k # "object"
        THEN failsWith({RootNotFound})
        ELSE decoded.error \notin
               FormatErrors \cup {MissingNodes, MissingRootId, RootNotFound}

\* A text spelling an object with neither nodes nor rootId has been refused
\* for its missing nodes.
C13_Witness ==
    /\ decoded.ran
    /\ wire.text.kind = "json"
    /\ wire.text.doc.k = "object"
    /\ wire.text.doc.nodesK # "object"
    /\ wire.text.doc.rootId = JsonAbsent
    /\ decoded.error = MissingNodes

\* C14: for a tree that serializeTree accepts, decoding what it wrote and
\* encoding the result again gives the identical string.
C14_EncodeDecodeEncode ==
    (wire.ok /\ ~Received) =>
        /\ decoded.ran => decoded.ok
        /\ json2.ran => (json2.ok /\ json2.text = wire.text)

\* C15: a tree that validateTree reports valid is encoded by serializeTree,
\* decoded by deserializeTree into a tree with as many nodes, and the decoded
\* tree is reported valid with no errors.
C15_CodecKeepsValidity ==
    (validateTree(tree).isValid /\ ~Received) =>
        /\ wire.ran => wire.ok
        /\ decoded.ran =>
              /\ decoded.ok
              /\ Cardinality(DOMAIN decoded.tree.nodes) = Cardinality(DOMAIN tree.nodes)
        /\ report.of = "decoded" =>
              (report.result.isValid /\ report.result.errors = <<>>)

\* A branching tree that validateTree reports valid has been encoded,
\* decoded and validated again.
C15_Witness ==
    /\ validateTree(tree).isValid
    /\ ~Received
    /\ report.of = "decoded"
    /\ report.result.isValid
    /\ Len(tree.nodes["r1"].children.a) = 2
    /\ Cardinality(DOMAIN decoded.tree.nodes) = 3

\* C16: deserializeTree does no structural validation: a text that spells a
\* tree of well-typed nodes with nodes, rootId and the root node present is
\* decoded into the same nodes, whatever data-model invariants they break.
C16_DecodeDoesNotValidate ==
    (decoded.ran /\ wire.text.kind = "json" /\ WellTyped(tree) /\ ~Refused(tree)) =>
        (decoded.ok /\ SameTree(decoded.tree, tree))

\* The ply the text in wire gives for the node under key.
PayloadPly(key) == ParseJson(wire.text.doc.nodes[key].ply)

\* The decoded node under key got its ply 0 by default, and is not the root.
DefaultedBelowRoot(key) ==
    /\ key # decoded.tree.rootId.s
    /\ PayloadPly(key).k # "number"
    /\ decoded.tree.nodes[key].ply = Num(0)

\* Decoding keeps a numeric ply and puts 0 for any other.
PlyKeptOrDefaulted ==
    decoded.ok =>
        \A key \in DOMAIN decoded.tree.nodes :
            decoded.tree.nodes[key].ply =
                IF PayloadPly(key).k = "number" THEN PayloadPly(key) ELSE Num(0)

\* C17: decoding keeps a numeric ply and puts 0 only for a ply that is
\* absent or no number; a decoded tree with a defaulted ply 0 on a node
\* below the root is not reported valid by validateTree.
C17_PlyDefault ==
    /\ PlyKeptOrDefaulted
    /\ (report.of = "decoded" /\ \E key \in DOMAIN decoded.tree.nodes : DefaultedBelowRoot(key))
          => ~report.result.isValid

\* The text in wire spells an object with nodes, a rootId and the root node,
\* every nodes entry is an object, and String(id) of every entry is its key.
DecodablePayload ==
    /\ wire.text.kind = "json"
    /\ LET parsed == JSONparse(wire.text) IN
       /\ parsed.k = "object" /\ parsed.nodesK = "object"
       /\ Truthy(parsed.rootId) /\ HasNode(parsed.nodes, parsed.rootId)
       /\ \A key \in DOMAIN parsed.nodes :
            parsed.nodes[key].k = "object" /\ JsString(parsed.nodes[key].id) = Str(key)

\* Every node of the decoded tree has the declared shape, given the node the
\* text spells under the same key.
DeclaredShape ==
    LET parsed == JSONparse(wire.text) IN
    \A key \in DOMAIN decoded.tree.nodes :
        LET node == decoded.tree.nodes[key]
            nodeObj == parsed.nodes[key]
        IN
        /\ node.id = JsString(nodeObj.id)
        /\ node.children.k = "array"
        /\ \A i \in DOMAIN node.children.a : node.children.a[i].k = "string"
        /\ nodeObj.children.k # "array" => node.children = Arr(<<>>)
        /\ nodeObj.parentId = Null => node.parentId = Null
        /\ nodeObj.move = Undefined => node.move = Undefined
        /\ nodeObj.uci = Undefined => node.uci = Undefined

\* C18: a payload whose ids are not all strings is decoded, not refused, and
\* every node deserializeTree returns has the declared shape: id restated
\* as a string, children a list of strings (empty for a non-list), a null
\* parentId still null, an absent move or uci still absent.
C18_DecodedShape ==
    decoded.ran =>
        /\ DecodablePayload => decoded.ok
        /\ decoded.ok => DeclaredShape

\* The node under key breaks the data model in a way that shows at the node
\* itself: it is no object, its id is not its key, its parentId names no
\* node, or it lists a child that does not exist or has another parentId.
NodeViolates(t, key) ==
    LET node == t.nodes[key] IN
    \/ node.k # "object"
    \/ node.id # Str(key)
    \/ node.parentId # Null /\ ~HasNode(t.nodes, node.parentId)
    \/ \E i \in DOMAIN node.children.a :
         \/ ~HasNode(t.nodes, node.children.a[i])
         \/ t.nodes[JsString(node.children.a[i]).s].parentId # Str(key)

ViolatingNodes(t) == { key \in DOMAIN t.nodes : NodeViolates(t, key) }

\* C19: validateTree reports every violation in one call: for a tree with
\* violations at several nodes, also one whose rootId is missing or names no
\* node, errors has an entry naming each violating node.
C19_EveryViolationReported ==
    (report.of = "tree" /\ Cardinality(ViolatingNodes(tree)) >= 2) =>
        \A key \in ViolatingNodes(tree) :
            \E j \in DOMAIN report.result.errors :
                report.result.errors[j].a = key \/ report.result.errors[j].c = key

\* C20: validateTree never raises: whatever it is given (no tree, no nodes
\* or rootId, null node entries, children that is no list, dangling or
\* cyclic references) it returns a result whose isValid says that errors
\* is empty.
C20_ValidateNeverRaises ==
    report.of # "none" =>
        /\ report.result.ran
        /\ ~report.result.raised
        /\ report.result.isValid = (report.result.errors = <<>>)

\* A tree with a null node entry has been validated and found invalid.
C20_Witness ==
    /\ report.of = "tree"
    /\ \E key \in DOMAIN tree.nodes : tree.nodes[key] = NullNode
    /\ ~report.result.raised
    /\ ~report.result.isValid
    /\ report.result.errors # <<>>

\* C21: validateTree is read-only: a step in which validateTree gives its
\* report leaves the tree it was given (the built tree, or the decoded one)
\* as it was, whether or not the report has errors.
C21_ValidateReadOnly ==
    [][report' # report => (tree' = tree /\ decoded' = decoded)]_vars

\* A tree with a defect has been validated, errors were found, and the tree
\* still gives the same report.
C21_Witness ==
    /\ report.of = "tree"
    /\ edits # <<>>
    /\ report.result.errors # <<>>
    /\ report.result = validateTree(tree)

\* The nodes of t whose parentId names no node of t.
DanglingParents(t) ==
    { key \in DOMAIN t.nodes :
        t.nodes[key].parentId # Null /\ t.nodes[key].parentId.s \notin DOMAIN t.nodes }

\* The entries of errors that report a non-existent parent.
ParentErrors(errors) ==
    SelectSeq(errors, LAMBDA e : e.msg = "references non-existent parent")

\* C22: for a decoded tree in which exactly one node, not the root, has a
\* parentId that names no node, validateTree reports exactly one
\* non-existent-parent error, and it names that node.
C22_OneDanglingParentOneError ==
    (report.of = "decoded"
       /\ Cardinality(DanglingParents(decoded.tree)) = 1
       /\ decoded.tree.rootId.s \notin DanglingParents(decoded.tree)) =>
        /\ Len(ParentErrors(report.result.errors)) = 1
        /\ ParentErrors(report.result.errors)[1].a \in DanglingParents(decoded.tree)

\* The tree of testTreeValidation, n1 below r1 with parentId 'wrong-parent',
\* has been encoded, decoded and validated.
C22_Witness ==
    /\ report.of = "decoded"
    /\ DOMAIN decoded.tree.nodes = {"r1", "n1"}
    /\ decoded.tree.nodes["n1"].parentId = Str("wrong-parent")
    /\ DanglingParents(decoded.tree) = {"n1"}
    /\ Len(ParentErrors(report.result.errors)) = 1

\* C23: when two add-move operations on the same parent are computed from
\* the same snapshot and both moves are legal, the second commit fails with
\* a conflict: its node is not appended to the parent's children and is not
\* put in the node map, so the result is that of the first move alone.
C23_SecondCommitConflicts ==
    [][(lastOp' = "addMoveUci twice" /\ genN' = genN + 2) =>
         LET id1 == genId("n", genN) IN
         /\ DOMAIN nodes' = DOMAIN nodes \cup {id1}
         /\ Len(nodes'[currentId].children.a) = Len(nodes[currentId].children.a) + 1]_vars

----------------------------------------------------------------------------
(* Properties of GameService *)

\* The moves of a sequence of accepted moves, in order.
MovesOf(acc) == [i \in DOMAIN acc |-> acc[i].mv]

\* C24: at most one apply-move is in flight on a game: no two movePiece
\* calls are both between reading the stored position and storing their
\* result, and every accepted move was played on the position that the
\* moves accepted before it produce.
C24_OneMoveInFlight ==
    /\ Cardinality({ p \in Requests : game.req[p].pc = "mp-hSet" }) <= 1
    /\ \A i \in DOMAIN game.accepted :
         game.accepted[i].on = MovesOf(SubSeq(game.accepted, 1, i - 1))

\* C25: when the session ends, the snapshot's movesTaken is the sequence of
\* the moves movePiece accepted in the session, the final move included.
C25_MoveHistorySaved ==
    \A i \in DOMAIN game.snapshots :
        game.snapshots[i].movesTaken = MovesOf(game.snapshots[i].accepted)

----------------------------------------------------------------------------
(* Properties of printTreeStats *)

\* Some node of t is reached again by following children from it.
RECURSIVE ReachesByChildren(_, _, _, _)
ReachesByChildren(t, from, to, steps) ==
    /\ steps > 0
    /\ HasNode(t.nodes, Str(from))
    /\ \E i \in DOMAIN t.nodes[from].children.a :
         LET c == JsString(t.nodes[from].children.a[i]).s IN
         c = to \/ ReachesByChildren(t, c, to, steps - 1)

ChildrenCycle(t) ==
    \E key \in DOMAIN t.nodes : ReachesByChildren(t, key, key, Cardinality(DOMAIN t.nodes))

\* C26: calculateDepth from the root terminates for every node map, also
\* one whose children form a cycle or name missing nodes: the chain of
\* calls never outgrows the nodes, since no chain visits a node twice, and
\* a depth it returns is at most the number of nodes.
C26_DepthTerminates ==
    stats.ran =>
        /\ stats.maxDepth # StackOverflow
        /\ stats.maxDepth <= Cardinality(DOMAIN tree.nodes)

\* The depth of a tree whose children form a cycle through the root has
\* been computed.
C26_Witness ==
    /\ stats.ran
    /\ ChildrenCycle(tree)
    /\ ReachesByChildren(tree, tree.rootId.s, tree.rootId.s, Cardinality(DOMAIN tree.nodes))
    /\ stats.maxDepth >= 2

----------------------------------------------------------------------------
(* The data model in the session *)

\* The tree the component holds.
SessionTree == Tree(nodes, Str(rootId))

\* Following parentId from key for at most steps steps arrives at the root.
RECURSIVE ReachesRoot(_, _, _)
ReachesRoot(t, key, steps) ==
    \/ key = t.rootId.s
    \/ /\ steps > 0
       /\ key \in DOMAIN t.nodes
       /\ t.nodes[key].parentId.k = "string"
       /\ ReachesRoot(t, t.nodes[key].parentId.s, steps - 1)

\* C27: in every reachable session state every id in a children list names
\* an existing node whose parentId is the listing node, and every node but
\* the root has a parentId that names an existing node.
C27_ReferencesConsistent ==
    ChildrenPointBack(SessionTree) /\ ParentsExist(SessionTree)

\* C28: in every reachable session state the parent relation is acyclic:
\* from every node, following parentId arrives at the root without passing
\* a node twice, so within as many steps as there are nodes.
C28_ParentsAcyclic ==
    \A key \in DOMAIN nodes : ReachesRoot(SessionTree, key, Cardinality(DOMAIN nodes))

\* C29: in every reachable session state no children list holds the same id
\* twice.
C29_ChildrenDistinct == NoDuplicateChildren(SessionTree)

\* C30: in every reachable session state the root has ply 0 and every other
\* node has its parent's ply + 1.
C30_PlyInvariant == PlyCounts(SessionTree)

\* The root entry makeInitialTree made, with the children it has by now.
InitialRootWith(children) ==
    [makeInitialTree.nodes[makeInitialTree.rootId] EXCEPT !.children = children]

\* C31: in every reachable session state rootId is the one the session
\* started with, nodes[rootId] exists with parentId null and ply 0, and the
\* entry is still the initial root node (only its children have grown): no
\* added move has been stored over it.
C31_RootStable ==
    /\ rootId = makeInitialTree.rootId
    /\ rootId \in DOMAIN nodes
    /\ nodes[rootId].parentId = Null
    /\ nodes[rootId].ply = Num(0)
    /\ nodes[rootId] = InitialRootWith(nodes[rootId].children)

\* Moves have been added, one of them on the root.
C31_Witness ==
    /\ lastOp = "addMoveUci"
    /\ genN > 3
    /\ Len(nodes[rootId].children.a)
         > Len(makeInitialTree.nodes[makeInitialTree.rootId].children.a)

\* C32: with gotoNode only called on the ids the rendered tree shows, the
\* cursor is a key of the node map in every reachable session state, so the
\* node current() reads is defined.
C32_CursorExists ==
    /\ currentId \in DOMAIN nodes
    /\ nodes[currentId].k = "object"

\* The cursor has left the root by an added move and come back one step.
C32_Witness ==
    /\ lastOp = "goBack"
    /\ genN > 2
    /\ currentId # rootId
    /\ statusMsg = "Played Nf3"

\* The id the latest accepted move was stored under.
LastAddedId == genId("n", genN - 1)

\* The move accepted last was made from the node the cursor is on again.
BackOnParentOfLastAdded ==
    /\ genN > 2
    /\ LastAddedId \in DOMAIN nodes
    /\ nodes[LastAddedId].parentId = Str(currentId)

\* a and b hold the same move: move, uci, fen and ply agree.
SameMove(a, b) ==
    /\ a.move = b.move /\ a.uci = b.uci /\ a.fen = b.fen /\ a.ply = b.ply

IsChildOf(ns, childId, parentId) ==
    /\ ns[childId].parentId = Str(parentId)
    /\ \E i \in DOMAIN ns[parentId].children.a : ns[parentId].children.a[i] = Str(childId)

\* C33: when the move accepted last from a node is accepted again from the
\* same node (the cursor went back in between), the node map afterwards has
\* both nodes: two different ids, both children of that node, with the same
\* move, uci, fen and ply, and the earlier node is left as it was.
C33_SameMoveTwiceTwoSiblings ==
    [][(BackOnParentOfLastAdded /\ lastOp' = "addMoveUci" /\ genN' = genN + 1) =>
         LET id1 == LastAddedId
             id2 == genId("n", genN)
         IN
         /\ id1 # id2
         /\ {id1, id2} \subseteq DOMAIN nodes'
         /\ nodes'[id1] = nodes[id1]
         /\ IsChildOf(nodes', id1, currentId)
         /\ IsChildOf(nodes', id2, currentId)
         /\ SameMove(nodes'[id1], nodes'[id2])]_vars

\* C34: when two add-move operations computed from the same rendered state
\* are both committed, both new nodes are in the node map afterwards and the
\* children of the node they were made from end with the two new ids in
\* commit order.
C34_BothCommitsKept ==
    [][(lastOp' = "addMoveUci twice" /\ genN' = genN + 2) =>
         LET id1 == genId("n", genN)
             id2 == genId("n", genN + 1)
             children == nodes'[currentId].children.a
         IN
         /\ {id1, id2} \subseteq DOMAIN nodes'
         /\ Len(children) >= 2
         /\ children[Len(children) - 1] = Str(id1)
         /\ children[Len(children)] = Str(id2)]_vars

----------------------------------------------------------------------------
(* Properties of GameService: sessions *)

\* C35: at any time at most one InProgressProblem document of the user and
\* problem has isCompleted = false, whatever createGame requests run at the
\* same time.
C35_OneInProgressGame == Cardinality(ActiveDocs) <= 1

\* Request p is inside endGame and holds a document it has read.
InEndGame(p) == game.req[p].pc \in {"eg-hGet", "eg-snapshot", "eg-hDel"}

\* A snapshot of the game kept in document id has been stored.
SnapshotStored(g, id) == \E i \in DOMAIN g.snapshots : g.snapshots[i].doc = id

\* C36: whenever endGame returns for a game it found, that game is marked
\* isCompleted only if a snapshot of it is stored and the cached game entry
\* is removed; so an endGame that answers with an error has marked nothing.
C36_EndGameAllOrNothing ==
    [][\A p \in Requests :
         (InEndGame(p) /\ game'.req[p].pc = "done") =>
            LET id == game.req[p].activeGame.id IN
            game'.docs[id].isCompleted =>
               /\ SnapshotStored(game', id)
               /\ ~game'.redis.present]_vars

\* The stored state of the sessions: documents, cache and snapshots.
Stored(g) == <<g.docs, g.redis, g.snapshots>>

\* C37: a movePiece or endGame that arrived after endGame's 200, with no
\* createGame answered since, changes nothing that is stored in any of its
\* steps, and the answer it gives is 404.
C37_FinishedSessionIsClosed ==
    [][\A p \in Requests :
         (game.req[p].late /\ game'.req[p].pc # game.req[p].pc) =>
            /\ Stored(game') = Stored(game)
            /\ game'.req[p].pc = "done" => game'.req[p].status = 404]_vars

====
